---- MODULE Spec2Model ----
(***************************************************************************)
(* Model of the cipher pipeline executor of ACS_SYSTEM/cipherdsl           *)
(* (out/rust/src/main.rs): the `enc` and `dec` subcommands of main, the    *)
(* key ratchet, the two AEAD backends and the bundle file between them.    *)
(*                                                                         *)
(* Byte strings are sequences of 0..255.  SHA3-512, AES-256-GCM and        *)
(* ChaCha20-Poly1305 come from external crates and are modelled as free    *)
(* constructors (a digest is determined by, and determines, its input; a   *)
(* sealed box opens only under the algorithm, key, nonce and associated    *)
(* data that sealed it).  Seed parsing, key normalisation, big-endian      *)
(* counters and the base64 of nonces and associated data are computed      *)
(* byte by byte.                                                           *)
(***************************************************************************)
EXTENDS Integers, Sequences, FiniteSets, TLC

(***************************************************************************)
(* Bounds of the model.                                                    *)
(***************************************************************************)
MaxPtLen == 1
MaxTamper == 1

(***************************************************************************)
(* Program constants.                                                      *)
(***************************************************************************)
KeyLen == 32
NonceLen == 12
TagLen == 16
CounterInit == 1

(***************************************************************************)
(* Option<T>: None is the empty sequence, Some(x) the one-element one.     *)
(***************************************************************************)
None == <<>>
Some(x) == <<x>>
IsSome(o) == Len(o) = 1
Unwrap(o) == o[1]

(***************************************************************************)
(* Strings are sequences of ASCII codes.                                   *)
(***************************************************************************)
Ch0 == 48
ChLowerX == 120
ChUpperX == 88

StartsWith(s, p) == Len(s) >= Len(p) /\ SubSeq(s, 1, Len(p)) = p

RECURSIVE TrimStartMatches(_, _)
TrimStartMatches(s, p) ==
    IF StartsWith(s, p)
    THEN TrimStartMatches(SubSeq(s, Len(p) + 1, Len(s)), p)
    ELSE s

\* Value of one hex digit, or -1 when the character is not a hex digit.
HexVal(c) ==
    IF c >= 48 /\ c <= 57 THEN c - 48
    ELSE IF c >= 97 /\ c <= 102 THEN c - 87
    ELSE IF c >= 65 /\ c <= 70 THEN c - 55
    ELSE -1

\* hex::decode: Err on odd length or on a character that is no hex digit.
HexOk(s) == Len(s) % 2 = 0 /\ \A i \in 1..Len(s) : HexVal(s[i]) >= 0
HexDecode(s) == [i \in 1..(Len(s) \div 2) |-> 16 * HexVal(s[2 * i - 1]) + HexVal(s[2 * i])]

IsHexSeed(seed) ==
    StartsWith(seed, <<Ch0, ChLowerX>>) \/ StartsWith(seed, <<Ch0, ChUpperX>>)
HexBody(seed) ==
    TrimStartMatches(TrimStartMatches(seed, <<Ch0, ChLowerX>>), <<Ch0, ChUpperX>>)

\* parse_seed panics ("bad hex seed") exactly when ParseSeedOk is false.
ParseSeedOk(seed) == IsHexSeed(seed) => HexOk(HexBody(seed))
parse_seed(seed) == IF IsHexSeed(seed) THEN HexDecode(HexBody(seed)) ELSE seed

\* Faulty variant: a seed longer than the key keeps its last 32 bytes.
NormalizeKeyTail(seedb) ==
    [i \in 1..KeyLen |->
        IF Len(seedb) > KeyLen THEN seedb[Len(seedb) - KeyLen + i]
        ELSE IF i <= Len(seedb) THEN seedb[i] ELSE 0]

\* The 32-byte initial key of main: truncate, or zero-fill on the right.
NormalizeKey(seedb) ==
    [i \in 1..KeyLen |-> IF i <= Len(seedb) THEN seedb[i] ELSE 0]

InitKey(seed) == [kind |-> "bytes", v |-> NormalizeKey(parse_seed(seed))]

\* u64::to_be_bytes.  The counter of a walk never exceeds 1 + the number of
\* steps, so the four high-order bytes are zero here.
RECURSIVE Pow256(_)
Pow256(n) == IF n = 0 THEN 1 ELSE 256 * Pow256(n - 1)
to_be_bytes(n) == [i \in 1..8 |-> IF i <= 4 THEN 0 ELSE (n \div Pow256(8 - i)) % 256]

\* rolling_key: first 32 bytes of SHA3-512(cur || be(counter) || extra).
rolling_key(cur, counter, extra) ==
    [kind |-> "sha3", cur |-> cur, ctr |-> to_be_bytes(counter), extra |-> extra]

(***************************************************************************)
(* base64 (STANDARD engine: canonical padding, no trailing bits).  A       *)
(* base64 string is a sequence of symbols: 0..63 is the alphabet index,    *)
(* B64Pad is '=', anything larger is a character outside the alphabet.     *)
(***************************************************************************)
B64Pad == 64

RECURSIVE B64Encode(_)
B64Encode(b) ==
    IF Len(b) = 0 THEN <<>>
    ELSE IF Len(b) = 1 THEN
        <<b[1] \div 4, (b[1] % 4) * 16, B64Pad, B64Pad>>
    ELSE IF Len(b) = 2 THEN
        <<b[1] \div 4, (b[1] % 4) * 16 + b[2] \div 16, (b[2] % 16) * 4, B64Pad>>
    ELSE
        <<b[1] \div 4, (b[1] % 4) * 16 + b[2] \div 16,
          (b[2] % 16) * 4 + b[3] \div 64, b[3] % 64>>
        \o B64Encode(SubSeq(b, 4, Len(b)))

\* Number of trailing '=' of the last quantum (0, 1 or 2).
B64PadCount(s) ==
    IF Len(s) >= 2 /\ s[Len(s)] = B64Pad /\ s[Len(s) - 1] = B64Pad THEN 2
    ELSE IF Len(s) >= 1 /\ s[Len(s)] = B64Pad THEN 1
    ELSE 0

B64Ok(s) ==
    LET p == B64PadCount(s)
        n == Len(s) - p
    IN  /\ Len(s) % 4 = 0
        /\ \A i \in 1..n : s[i] < B64Pad
        /\ p = 2 => s[n] % 16 = 0
        /\ p = 1 => s[n] % 4 = 0

RECURSIVE B64DecodeSyms(_)
B64DecodeSyms(s) ==
    IF Len(s) < 2 THEN <<>>
    ELSE IF Len(s) = 2 THEN <<s[1] * 4 + s[2] \div 16>>
    ELSE IF Len(s) = 3 THEN
        <<s[1] * 4 + s[2] \div 16, (s[2] % 16) * 16 + s[3] \div 4>>
    ELSE
        <<s[1] * 4 + s[2] \div 16, (s[2] % 16) * 16 + s[3] \div 4,
          (s[3] % 4) * 64 + s[4]>>
        \o B64DecodeSyms(SubSeq(s, 5, Len(s)))

B64Decode(s) == B64DecodeSyms(SubSeq(s, 1, Len(s) - B64PadCount(s)))

(***************************************************************************)
(* Payload data.  A payload is raw bytes, a sealed box, or a byte string   *)
(* obtained by corrupting another payload.                                 *)
(***************************************************************************)
Raw(b) == [kind |-> "raw", bytes |-> b]
Corrupt(d) == [kind |-> "corrupt", of |-> d]

\* AEAD encryption: ciphertext with the 16-byte tag embedded.
Seal(alg, k, nonce, aad, pt) ==
    [kind |-> "sealed", alg |-> alg, key |-> k, nonce |-> nonce, aad |-> aad, pt |-> pt]

\* Faulty variant: the box is opened without verifying the tag.
VerifiesUnchecked(alg, k, nonce, ct, aad) == ct.kind = "sealed"

\* AEAD tag verification.
Verifies(alg, k, nonce, ct, aad) ==
    /\ ct.kind = "sealed"
    /\ ct.alg = alg
    /\ ct.key = k
    /\ ct.nonce = nonce
    /\ ct.aad = aad

RECURSIVE DataLen(_)
DataLen(d) ==
    IF d.kind = "raw" THEN Len(d.bytes)
    ELSE IF d.kind = "sealed" THEN DataLen(d.pt) + TagLen
    ELSE DataLen(d.of)

AesGcm == "aesgcm"
ChaCha == "chacha20poly1305"

\* aesgcm_decrypt / chacha_decrypt panic exactly when the tag does not verify.
aesgcm_decrypt_ok(k, nonce, ct, aad) == Verifies(AesGcm, k, nonce, ct, aad)
chacha_decrypt_ok(k, nonce, ct, aad) == Verifies(ChaCha, k, nonce, ct, aad)
aesgcm_decrypt(k, nonce, ct, aad) == ct.pt
chacha_decrypt(k, nonce, ct, aad) == ct.pt
aesgcm_encrypt(k, pt, aad, nonce) == Seal(AesGcm, k, nonce, aad, pt)
chacha_encrypt(k, pt, aad, nonce) == Seal(ChaCha, k, nonce, aad, pt)

\* Bundle.data_b64: base64 text of a payload, or text that is not base64.
DataB64(d) == [ok |-> TRUE, dec |-> d]
BadDataB64 == [ok |-> FALSE, dec |-> Raw(<<>>)]

(***************************************************************************)
(* Step descriptors (PIPELINE_JSON), step records and bundles.             *)
(***************************************************************************)
OpRollingKey == "rolling_key"
OpAesGcm == "aesgcm_enc"
OpChaCha == "chacha20poly1305_enc"
OpBogus == "bogus"

StrAdap == <<97, 100, 97, 112>>
StrEvolve == <<101, 118, 111, 108, 118, 101>>

Descriptor(op, aad) == [op |-> op, aad |-> aad]

\* The pipeline baked into this build.
PIPELINE_JSON ==
    << Descriptor(OpRollingKey, None),
       Descriptor(OpAesGcm, Some(StrAdap)),
       Descriptor(OpChaCha, Some(StrEvolve)) >>

\* Pipelines the generator can inject in place of PIPELINE_JSON.
GeneratedPipelines ==
    { PIPELINE_JSON,
      << Descriptor(OpRollingKey, None), Descriptor(OpAesGcm, None) >>,
      << Descriptor(OpChaCha, Some(StrEvolve)), Descriptor(OpRollingKey, None),
         Descriptor(OpAesGcm, Some(StrAdap)) >>,
      << Descriptor(OpRollingKey, None), Descriptor(OpRollingKey, None) >>,
      << Descriptor(OpRollingKey, None), Descriptor(OpAesGcm, Some(StrAdap)),
         Descriptor(OpBogus, None) >> }

StepOut(op, nonce_b64, tag_b64, aad_b64) ==
    [op |-> op, nonce_b64 |-> nonce_b64, tag_b64 |-> tag_b64, aad_b64 |-> aad_b64]

Bundle(id, out_steps, data) ==
    [kind |-> "json", id |-> id, steps |-> out_steps, data_b64 |-> DataB64(data)]

NoFile == [kind |-> "none"]
GarbageFile == [kind |-> "garbage"]

(***************************************************************************)
(* Inputs.                                                                 *)
(***************************************************************************)
Seed32 == [i \in 1..32 |-> 107]
SeedStrings ==
    { <<97>>,                          \* "a"
      <<48, 120, 54, 49>>,             \* "0x61", the same bytes as "a"
      <<48, 120, 54>>,                 \* "0x6", not valid hex
      Seed32,                          \* 32 bytes
      Seed32 \o <<122>> }              \* 33 bytes, same first 32

PtBytes == {255}
RECURSIVE SeqsUpTo(_, _)
SeqsUpTo(S, n) ==
    IF n = 0 THEN {<<>>}
    ELSE LET r == SeqsUpTo(S, n - 1)
         IN  r \cup {Append(q, x) : q \in {t \in r : Len(t) = n - 1}, x \in S}
Plaintexts == SeqsUpTo(PtBytes, MaxPtLen)

\* Values the OS random source can return for a nonce; they differ in one bit.
Nonce0 == [i \in 1..NonceLen |-> 0]
Nonce1 == [i \in 1..NonceLen |-> IF i = NonceLen THEN 1 ELSE 0]
Nonces == {Nonce0, Nonce1}

\* rand::random::<u64>() rendered by format!("{:016x}").
Ids == { [i \in 1..16 |-> 48], [i \in 1..16 |-> 102] }

(***************************************************************************)
(* State.                                                                  *)
(***************************************************************************)
VARIABLES
    steps,        \* the parsed PIPELINE_JSON
    enc,          \* locals of the Cmd::Enc invocation
    dec,          \* locals of the Cmd::Dec invocation
    infile,       \* content of the file Cmd::Enc reads
    bundleFile,   \* the file Cmd::Enc writes and Cmd::Dec reads
    outfile,      \* the file Cmd::Dec writes: a sequence of writes
    tampers       \* number of changes made to bundleFile by other programs

vars == <<steps, enc, dec, infile, bundleFile, outfile, tampers>>

NoKey == [kind |-> "none"]

EncIdle ==
    [pc |-> "idle", seed |-> <<>>, key |-> NoKey, counter |-> 0, data |-> Raw(<<>>),
     out_steps |-> <<>>, i |-> 0, err |-> "", writes |-> 0]

DecIdle ==
    [pc |-> "idle", seed |-> <<>>, key |-> NoKey, counter |-> 0, data |-> Raw(<<>>),
     bundle |-> NoFile, i |-> 0, err |-> "", calls |-> <<>>]

InitWith(pipelines) ==
    /\ steps \in pipelines
    /\ enc = EncIdle
    /\ dec = DecIdle
    /\ infile \in {Raw(p) : p \in Plaintexts}
    /\ bundleFile = NoFile
    /\ outfile = <<>>
    /\ tampers = 0

Init == InitWith({PIPELINE_JSON})
GenInit == InitWith(GeneratedPipelines)

(***************************************************************************)
(* Cmd::Enc                                                                *)
(*                                                                         *)
(* The two invocations are separate processes that share only the bundle   *)
(* file: enc touches it in its last statement, dec in its first.  A walk   *)
(* works on locals, so the steps of one walk are not interleaved with the  *)
(* other process or with changes to the file.                              *)
(***************************************************************************)
\* main, lines 137-150: seed, initial key, input, counter, out_steps.
EncStart(seed) ==
    /\ enc.pc = "idle"
    /\ dec.pc # "walk"
    /\ enc' = IF ParseSeedOk(seed)
              THEN [enc EXCEPT !.pc = "walk", !.seed = seed, !.key = InitKey(seed),
                               !.data = infile, !.counter = CounterInit,
                               !.out_steps = <<>>, !.i = 1]
              ELSE [enc EXCEPT !.pc = "panic", !.seed = seed, !.err = "bad hex seed"]
    /\ UNCHANGED <<steps, dec, infile, bundleFile, outfile, tampers>>

\* s.get("aad").and_then(|v| v.as_str()).unwrap_or("").as_bytes()
DescriptorAad(s) == IF IsSome(s.aad) THEN Unwrap(s.aad) ELSE <<>>

\* Faulty variant: the ratchet step leaves no record.
EncRatchetNoRecord(e, s) ==
    [e EXCEPT !.key = rolling_key(e.key, e.counter, to_be_bytes(e.counter)),
              !.counter = e.counter + 1,
              !.i = e.i + 1]

\* The "rolling_key" arm, lines 155-160.
EncRatchet(e, s) ==
    [e EXCEPT !.key = rolling_key(e.key, e.counter, to_be_bytes(e.counter)),
              !.counter = e.counter + 1,
              !.out_steps = Append(e.out_steps, StepOut(s.op, None, None, None)),
              !.i = e.i + 1]

\* Faulty variant: empty associated data is recorded as an absent field.
EncAeadOmitEmptyAad(e, s, ct, nonce) ==
    [e EXCEPT !.data = ct,
              !.out_steps = Append(e.out_steps,
                  StepOut(s.op, Some(B64Encode(nonce)), None,
                          IF DescriptorAad(s) = <<>> THEN None
                          ELSE Some(B64Encode(DescriptorAad(s))))),
              !.i = e.i + 1]

\* Faulty variant: every AEAD step re-derives the key.
EncAeadRekey(e, s, ct, nonce) ==
    [e EXCEPT !.data = ct,
              !.key = rolling_key(e.key, e.counter, to_be_bytes(e.counter)),
              !.out_steps = Append(e.out_steps,
                  StepOut(s.op, Some(B64Encode(nonce)), None,
                          Some(B64Encode(DescriptorAad(s))))),
              !.i = e.i + 1]

\* Faulty variant: the ciphertext is recorded but data is not replaced by it.
EncAeadKeepData(e, s, ct, nonce) ==
    [e EXCEPT !.out_steps = Append(e.out_steps,
                  StepOut(s.op, Some(B64Encode(nonce)), None,
                          Some(B64Encode(DescriptorAad(s))))),
              !.i = e.i + 1]

\* The two AEAD arms, lines 161-182; ct is what the backend returned.
EncAead(e, s, ct, nonce) ==
    [e EXCEPT !.data = ct,
              !.out_steps = Append(e.out_steps,
                  StepOut(s.op, Some(B64Encode(nonce)), None,
                          Some(B64Encode(DescriptorAad(s))))),
              !.i = e.i + 1]

\* Faulty variant: the failure is noted and the walk goes on.
EncUnsupportedContinue(e, s) == [e EXCEPT !.err = "enc: unsupported op", !.i = e.i + 1]

\* The default arm, lines 183-185.
EncUnsupported(e, s) == [e EXCEPT !.pc = "panic", !.err = "enc: unsupported op"]

\* One iteration of the loop of lines 152-187 on descriptor s.
EncIter(e, s, nonce) ==
    IF s.op = OpRollingKey THEN EncRatchet(e, s)
    ELSE IF s.op = OpChaCha THEN
        EncAead(e, s, chacha_encrypt(e.key, e.data, DescriptorAad(s), nonce), nonce)
    ELSE IF s.op = OpAesGcm THEN
        EncAead(e, s, aesgcm_encrypt(e.key, e.data, DescriptorAad(s), nonce), nonce)
    ELSE EncUnsupported(e, s)

EncStep(nonce) ==
    /\ enc.pc = "walk"
    /\ enc.i <= Len(steps)
    /\ enc' = EncIter(enc, steps[enc.i], nonce)
    /\ UNCHANGED <<steps, dec, infile, bundleFile, outfile, tampers>>

\* main, lines 189-194: build the bundle and write it.
EncWrite(id) ==
    /\ enc.pc = "walk"
    /\ enc.i > Len(steps)
    /\ bundleFile' = Bundle(id, enc.out_steps, enc.data)
    /\ enc' = [enc EXCEPT !.pc = "done", !.writes = enc.writes + 1]
    /\ UNCHANGED <<steps, dec, infile, outfile, tampers>>

(***************************************************************************)
(* Cmd::Dec                                                                *)
(***************************************************************************)
\* main, lines 197-211: seed, initial key, counter, bundle, data.
DecStart(seed) ==
    /\ dec.pc = "idle"
    /\ enc.pc # "walk"
    /\ dec' = IF ~ParseSeedOk(seed)
              THEN [dec EXCEPT !.pc = "panic", !.seed = seed, !.err = "bad hex seed"]
              ELSE IF bundleFile.kind = "none"
              THEN [dec EXCEPT !.pc = "error", !.seed = seed, !.err = "read"]
              ELSE IF bundleFile.kind = "garbage"
              THEN [dec EXCEPT !.pc = "error", !.seed = seed, !.err = "parse"]
              ELSE IF ~bundleFile.data_b64.ok
              THEN [dec EXCEPT !.pc = "error", !.seed = seed, !.err = "data_b64",
                               !.bundle = bundleFile]
              ELSE [dec EXCEPT !.pc = "walk", !.seed = seed, !.key = InitKey(seed),
                               !.counter = CounterInit, !.bundle = bundleFile,
                               !.data = bundleFile.data_b64.dec, !.i = 1]
    /\ UNCHANGED <<steps, enc, infile, bundleFile, outfile, tampers>>

\* Faulty variant: the failure is noted and the walk goes on.
DecPanicContinue(d, why) == [d EXCEPT !.err = why, !.i = d.i + 1]

DecPanic(d, why) == [d EXCEPT !.pc = "panic", !.err = why]

\* s.aad_b64.as_ref().map(|x| decode(x).unwrap()).unwrap_or_default()
RecordAadOk(s) == IsSome(s.aad_b64) => B64Ok(Unwrap(s.aad_b64))
\* Faulty variant: the associated data is taken from the compiled pipeline's
\* descriptor of the same op instead of the record.
RecordAadFromPipeline(s) ==
    LET m == {i \in 1..Len(steps) : steps[i].op = s.op}
    IN  IF m = {} THEN <<>> ELSE DescriptorAad(steps[CHOOSE i \in m : TRUE])
RecordAad(s) == IF IsSome(s.aad_b64) THEN B64Decode(Unwrap(s.aad_b64)) ELSE <<>>

\* The AEAD arms of lines 221-232; alg selects the backend.
DecAead(d, s, alg) ==
    IF ~IsSome(s.nonce_b64) THEN DecPanic(d, "nonce: unwrap on None")
    ELSE IF ~B64Ok(Unwrap(s.nonce_b64)) THEN DecPanic(d, "nonce: base64")
    ELSE IF Len(B64Decode(Unwrap(s.nonce_b64))) # NonceLen THEN DecPanic(d, "nonce: length")
    ELSE IF ~RecordAadOk(s) THEN DecPanic(d, "aad: base64")
    ELSE LET n12 == B64Decode(Unwrap(s.nonce_b64))
             aad == RecordAad(s)
             called == [d EXCEPT !.calls = Append(d.calls, [op |-> alg, nonce |-> n12, aad |-> aad])]
         IN  IF alg = ChaCha
             THEN IF chacha_decrypt_ok(d.key, n12, d.data, aad)
                  THEN [called EXCEPT !.data = chacha_decrypt(d.key, n12, d.data, aad),
                                      !.i = d.i + 1]
                  ELSE DecPanic(called, "chacha dec")
             ELSE IF aesgcm_decrypt_ok(d.key, n12, d.data, aad)
                  THEN [called EXCEPT !.data = aesgcm_decrypt(d.key, n12, d.data, aad),
                                      !.i = d.i + 1]
                  ELSE DecPanic(called, "AES-GCM dec")

\* Faulty variant: the replayed ratchet step hashes no extra bytes.
DecRatchetEmptyExtra(d, s) ==
    [d EXCEPT !.key = rolling_key(d.key, d.counter, <<>>),
              !.counter = d.counter + 1,
              !.calls = Append(d.calls, [op |-> OpRollingKey, nonce |-> <<>>, aad |-> <<>>]),
              !.i = d.i + 1]

\* Faulty variant: the replayed ratchet step does not advance the counter.
DecRatchetNoCount(d, s) ==
    [d EXCEPT !.key = rolling_key(d.key, d.counter, to_be_bytes(d.counter)),
              !.calls = Append(d.calls, [op |-> OpRollingKey, nonce |-> <<>>, aad |-> <<>>]),
              !.i = d.i + 1]

\* The "rolling_key" arm, lines 216-220.
DecRatchet(d, s) ==
    [d EXCEPT !.key = rolling_key(d.key, d.counter, to_be_bytes(d.counter)),
              !.counter = d.counter + 1,
              !.calls = Append(d.calls, [op |-> OpRollingKey, nonce |-> <<>>, aad |-> <<>>]),
              !.i = d.i + 1]

\* Faulty variant: a record with an unknown tag is skipped.
DecUnsupportedSkip(d, s) == [d EXCEPT !.i = d.i + 1]

\* The default arm, line 233.
DecUnsupported(d, s) == DecPanic(d, "dec: unsupported step")

\* Faulty variant: the records are replayed from the last to the first.
DecIterReversed(d, s) ==
    LET r == d.bundle.steps[Len(d.bundle.steps) + 1 - d.i]
    IN  IF r.op = OpRollingKey THEN DecRatchet(d, r)
        ELSE IF r.op = OpChaCha THEN DecAead(d, r, ChaCha)
        ELSE IF r.op = OpAesGcm THEN DecAead(d, r, AesGcm)
        ELSE DecUnsupported(d, r)

\* One iteration of the loop of lines 214-235 on step record s.
DecIter(d, s) ==
    IF s.op = OpRollingKey THEN DecRatchet(d, s)
    ELSE IF s.op = OpChaCha THEN DecAead(d, s, ChaCha)
    ELSE IF s.op = OpAesGcm THEN DecAead(d, s, AesGcm)
    ELSE DecUnsupported(d, s)

DecStep ==
    /\ dec.pc = "walk"
    /\ dec.i <= Len(dec.bundle.steps)
    /\ dec' = DecIter(dec, dec.bundle.steps[dec.i])
    /\ UNCHANGED <<steps, enc, infile, bundleFile, outfile, tampers>>

\* Faulty variant: a walk that made no AEAD call refuses to write.
DecWriteAuthenticated ==
    /\ dec.pc = "walk"
    /\ dec.i > Len(dec.bundle.steps)
    /\ IF \E j \in 1..Len(dec.calls) : dec.calls[j].op \in {AesGcm, ChaCha}
       THEN outfile' = Append(outfile, dec.data) /\ dec' = [dec EXCEPT !.pc = "done"]
       ELSE outfile' = outfile /\ dec' = DecPanic(dec, "no integrity check")
    /\ UNCHANGED <<steps, enc, infile, bundleFile, tampers>>

\* main, line 237.
DecWrite ==
    /\ dec.pc = "walk"
    /\ dec.i > Len(dec.bundle.steps)
    /\ outfile' = Append(outfile, dec.data)
    /\ dec' = [dec EXCEPT !.pc = "done"]
    /\ UNCHANGED <<steps, enc, infile, bundleFile, tampers>>

(***************************************************************************)
(* Other programs changing the bundle file between enc and dec.            *)
(***************************************************************************)
\* Text with a character outside the base64 alphabet.
JunkB64 == <<B64Pad + 1, 0, 0, 0>>
NonceFieldValues ==
    {None, Some(JunkB64), Some(B64Encode(<<0, 0, 0>>))} \cup {Some(B64Encode(n)) : n \in Nonces}
AadFieldValues ==
    {None, Some(JunkB64), Some(B64Encode(<<>>)), Some(B64Encode(StrAdap))}
OpValues == {OpRollingKey, OpAesGcm, OpChaCha, OpBogus}

CanTamper ==
    /\ bundleFile.kind = "json"
    /\ tampers < MaxTamper
    /\ dec.pc = "idle"
    /\ enc.pc # "walk"

Tampered(b) ==
    /\ b # bundleFile
    /\ bundleFile' = b
    /\ tampers' = tampers + 1
    /\ UNCHANGED <<steps, enc, dec, infile, outfile>>

\* Positions of the records whose nonce and associated data the walk reads.
AeadRecords(b) == {i \in 1..Len(b.steps) : b.steps[i].op \in {OpAesGcm, OpChaCha}}

TamperData ==
    /\ CanTamper
    /\ \E d \in {BadDataB64, DataB64(Raw(<<>>)), DataB64(Corrupt(bundleFile.data_b64.dec))} :
          Tampered([bundleFile EXCEPT !.data_b64 = d])

TamperNonce ==
    /\ CanTamper
    /\ \E i \in AeadRecords(bundleFile), v \in NonceFieldValues :
          Tampered([bundleFile EXCEPT !.steps[i].nonce_b64 = v])

TamperAad ==
    /\ CanTamper
    /\ \E i \in AeadRecords(bundleFile), v \in AadFieldValues :
          Tampered([bundleFile EXCEPT !.steps[i].aad_b64 = v])

TamperOp ==
    /\ CanTamper
    /\ \E i \in 1..Len(bundleFile.steps), v \in OpValues :
          Tampered([bundleFile EXCEPT !.steps[i].op = v])

RemoveAt(q, i) == SubSeq(q, 1, i - 1) \o SubSeq(q, i + 1, Len(q))
SwapAt(q, i) == [j \in 1..Len(q) |-> IF j = i THEN q[i + 1] ELSE IF j = i + 1 THEN q[i] ELSE q[j]]

TamperSteps ==
    /\ CanTamper
    /\ \/ \E i \in 1..Len(bundleFile.steps) :
             Tampered([bundleFile EXCEPT !.steps = RemoveAt(bundleFile.steps, i)])
       \/ \E i \in 1..(Len(bundleFile.steps) - 1) :
             Tampered([bundleFile EXCEPT !.steps = SwapAt(bundleFile.steps, i)])

TamperFile ==
    /\ CanTamper
    /\ Tampered(GarbageFile)

\* Bundles written by hand, holding no ciphertext of this program.
ForgedBundles ==
    { Bundle(CHOOSE id \in Ids : TRUE, q, Raw(<<255>>)) :
        q \in { <<>>,
                << StepOut(OpRollingKey, None, None, None) >>,
                << StepOut(OpBogus, None, None, None) >>,
                << StepOut(OpRollingKey, None, None, None),
                   StepOut(OpAesGcm, Some(B64Encode(Nonce0)), None, Some(B64Encode(StrAdap))) >> } }

Forge ==
    /\ bundleFile.kind = "none"
    /\ dec.pc = "idle"
    /\ enc.pc # "walk"
    /\ bundleFile' \in ForgedBundles
    /\ UNCHANGED <<steps, enc, dec, infile, outfile, tampers>>

Next ==
    \/ \E seed \in SeedStrings : EncStart(seed)
    \/ \E nonce \in Nonces : EncStep(nonce)
    \/ \E id \in Ids : EncWrite(id)
    \/ \E seed \in SeedStrings : DecStart(seed)
    \/ DecStep
    \/ DecWrite
    \/ TamperData
    \/ TamperNonce
    \/ TamperAad
    \/ TamperOp
    \/ TamperSteps
    \/ TamperFile
    \/ Forge

Spec == Init /\ [][Next]_vars
GenSpec == GenInit /\ [][Next]_vars

(***************************************************************************)
(* Vocabulary of the properties.                                           *)
(***************************************************************************)
KnownOps == {OpRollingKey, OpAesGcm, OpChaCha}
AeadOps == {OpAesGcm, OpChaCha}
AeadCalls == {AesGcm, ChaCha}
OpsOf(q) == [j \in 1..Len(q) |-> q[j].op]
RatchetsBefore(q, i) == Cardinality({j \in 1..Len(q) : j < i /\ q[j].op = OpRollingKey})

\* b is exactly what the enc invocation wrote.
EncBundleIs(b) ==
    /\ enc.pc = "done"
    /\ b.kind = "json"
    /\ b.steps = enc.out_steps
    /\ b.data_b64 = DataB64(enc.data)

\* b is what enc wrote, changed only in the data or in the nonce or
\* associated data of AEAD records.
MetaChanged(b) ==
    /\ enc.pc = "done"
    /\ b.kind = "json"
    /\ Len(b.steps) = Len(enc.out_steps)
    /\ \A j \in 1..Len(b.steps) :
          /\ b.steps[j].op = enc.out_steps[j].op
          /\ b.steps[j].tag_b64 = enc.out_steps[j].tag_b64
          /\ b.steps[j].op \notin AeadOps => b.steps[j] = enc.out_steps[j]
    /\ \/ b.data_b64 # DataB64(enc.data)
       \/ \E j \in 1..Len(b.steps) : b.steps[j] # enc.out_steps[j]

NonceWellFormed(r) ==
    /\ IsSome(r.nonce_b64)
    /\ B64Ok(Unwrap(r.nonce_b64))
    /\ Len(B64Decode(Unwrap(r.nonce_b64))) = NonceLen

AuthFailure(d) == d.pc = "panic" /\ d.err \in {"AES-GCM dec", "chacha dec"}
Aborted(d) == d.pc \in {"panic", "error"}

\* C1: for the fixed pipeline, decrypting with seed S the bundle that encrypt
\* produced from (S, P) completes without failure and writes exactly P.
C1_RoundTrip ==
    (steps = PIPELINE_JSON /\ EncBundleIs(dec.bundle) /\ dec.seed = enc.seed)
        => /\ ~Aborted(dec)
           /\ dec.pc = "done" => outfile = <<infile>>

\* C2, as stated: changing the data of an encrypted bundle, or the recorded
\* nonce or associated data of an AEAD record, makes decrypt with the
\* original seed end in an authentication failure, with nothing written.
C2_TamperIsAuthFailure ==
    (MetaChanged(dec.bundle) /\ dec.seed = enc.seed /\ dec.pc # "walk")
        => AuthFailure(dec) /\ outfile = <<>>

\* b has at least one AEAD-tagged record.
HasAead(b) == \E j \in 1..Len(b.steps) : b.steps[j].op \in AeadOps

\* b differs from what enc wrote only by the removal of aad_b64 from records
\* whose recorded associated data was empty.
OnlyEmptyAadDropped(b) ==
    /\ b.data_b64 = DataB64(enc.data)
    /\ \A j \in 1..Len(b.steps) :
          \/ b.steps[j] = enc.out_steps[j]
          \/ /\ enc.out_steps[j].aad_b64 = Some(B64Encode(<<>>))
             /\ b.steps[j] = [enc.out_steps[j] EXCEPT !.aad_b64 = None]

\* C2, amended: after such a change to a bundle with an AEAD record, decrypt
\* with the original seed completes only if nothing but an empty aad_b64 was
\* removed, and then writes the original plaintext; otherwise it writes
\* nothing. It returns a decode error before the walk exactly when data_b64
\* is not base64; a panic is at an AEAD record, the first in stored order at
\* which something fails, and it is an authentication failure exactly when
\* that record's nonce and associated data decode, a decode failure otherwise.
C2_TamperDetected ==
    (MetaChanged(dec.bundle) /\ dec.seed = enc.seed /\ HasAead(dec.bundle)) =>
        /\ dec.pc = "done" => outfile = <<infile>> /\ OnlyEmptyAadDropped(dec.bundle)
        /\ dec.pc # "done" => outfile = <<>>
        /\ dec.pc = "error" <=> ~dec.bundle.data_b64.ok
        /\ dec.pc = "error" => dec.err = "data_b64" /\ dec.calls = <<>>
        /\ dec.pc = "panic" =>
              LET r == dec.bundle.steps[dec.i]
              IN  /\ r.op \in AeadOps
                  /\ AuthFailure(dec) <=> (NonceWellFormed(r) /\ RecordAadOk(r))
                  /\ ~AuthFailure(dec) =>
                        dec.err \in {"nonce: unwrap on None", "nonce: base64",
                                     "nonce: length", "aad: base64"}

C2_Witness ==
    /\ MetaChanged(dec.bundle)
    /\ dec.seed = enc.seed
    /\ OpsOf(steps) = <<OpRollingKey, OpAesGcm>>
    /\ dec.bundle.data_b64 = DataB64(enc.data)
    /\ NonceWellFormed(dec.bundle.steps[2])
    /\ dec.bundle.steps[2].nonce_b64 # enc.out_steps[2].nonce_b64
    /\ dec.bundle.steps[2].aad_b64 = enc.out_steps[2].aad_b64
    /\ dec.i = 2
    /\ dec.err = "AES-GCM dec"
    /\ Len(dec.calls) = 2

\* C3: decrypting what encrypt wrote under seed S with a seed whose
\* normalized 32-byte key differs fails with an authentication failure and
\* writes nothing.
WrongSeed ==
    /\ EncBundleIs(dec.bundle)
    /\ ParseSeedOk(dec.seed)
    /\ NormalizeKey(parse_seed(dec.seed)) # NormalizeKey(parse_seed(enc.seed))

C3_WrongSeedFails ==
    WrongSeed
        => /\ outfile = <<>>
           /\ dec.pc # "done"
           /\ dec.pc = "walk" => dec.i <= Len(dec.bundle.steps)
           /\ dec.pc # "walk" => AuthFailure(dec)

C3_Witness == WrongSeed /\ AuthFailure(dec) /\ Len(dec.calls) = 2

\* C4: output is written at most once and only after every step of the walk
\* succeeded; once a step has failed nothing is written and nothing more runs.
C4_State ==
    /\ Len(outfile) <= 1
    /\ enc.writes <= 1
    /\ outfile # <<>> =>
          /\ dec.pc = "done"
          /\ dec.err = ""
          /\ dec.i = Len(dec.bundle.steps) + 1
          /\ Len(dec.calls) = Len(dec.bundle.steps)
    /\ enc.writes > 0 =>
          /\ enc.pc = "done"
          /\ enc.err = ""
          /\ enc.i = Len(steps) + 1
    /\ dec.err # "" => Aborted(dec) /\ outfile = <<>>
    /\ enc.err # "" => Aborted(enc) /\ enc.writes = 0

C4_Step ==
    /\ Aborted(dec) => dec' = dec /\ outfile' = outfile
    /\ Aborted(enc) => enc' = enc
    /\ outfile' # outfile => dec.pc = "walk" /\ dec.i > Len(dec.bundle.steps)
    /\ enc'.writes # enc.writes => enc.pc = "walk" /\ enc.i > Len(steps)

\* C4 (all-or-nothing output): C4_State holds of every state and C4_Step of every step.
C4_AllOrNothing == C4_State /\ [][C4_Step /\ C4_State']_vars

C4_Witness ==
    /\ dec.pc = "panic"
    /\ Len(dec.calls) = 2
    /\ dec.i < Len(dec.bundle.steps)
    /\ outfile = <<>>
    /\ enc.pc = "done"

\* C5: a bundle whose steps differ from the fixed pipeline in length or in an
\* op tag is rejected by decrypt before any AEAD decrypt call is attempted.
C5_MismatchRejectedEarly ==
    (dec.bundle.kind = "json" /\ OpsOf(dec.bundle.steps) # OpsOf(PIPELINE_JSON))
        => /\ dec.pc # "done"
           /\ \A c \in 1..Len(dec.calls) : dec.calls[c].op \notin AeadCalls

\* C6: the decrypt walk never gets past an AEAD-tagged record whose nonce is
\* absent or malformed or whose associated data is absent.
MetadataMissing(r) ==
    r.op \in AeadOps /\ (~NonceWellFormed(r) \/ ~IsSome(r.aad_b64))

C6_MissingMetadataFatal ==
    dec.bundle.kind = "json"
        => \A j \in 1..Len(dec.bundle.steps) :
              j < dec.i => ~MetadataMissing(dec.bundle.steps[j])

\* C7: neither walk gets past a step whose op is not one of the three known
\* tags: the walk panics at that step and the invocation writes nothing.
C7_State ==
    /\ \A j \in 1..Len(steps) : j < enc.i => steps[j].op \in KnownOps
    /\ enc.writes > 0 => \A j \in 1..Len(steps) : steps[j].op \in KnownOps
    /\ dec.bundle.kind = "json" =>
          /\ \A j \in 1..Len(dec.bundle.steps) :
                j < dec.i => dec.bundle.steps[j].op \in KnownOps
          /\ outfile # <<>> =>
                \A j \in 1..Len(dec.bundle.steps) : dec.bundle.steps[j].op \in KnownOps

C7_Step ==
    /\ (enc.pc = "walk" /\ enc.i <= Len(steps) /\ steps[enc.i].op \notin KnownOps
            /\ enc' # enc)
          => enc'.pc = "panic" /\ enc'.i = enc.i /\ enc'.writes = 0
    /\ (dec.pc = "walk" /\ dec.i <= Len(dec.bundle.steps)
            /\ dec.bundle.steps[dec.i].op \notin KnownOps /\ dec' # dec)
          => dec'.pc = "panic" /\ dec'.i = dec.i /\ outfile' = <<>>

\* C7 (unknown tag is fatal): C7_State holds of every state and C7_Step of every step.
C7_UnknownTagFatal == C7_State /\ [][C7_Step /\ C7_State']_vars

C7_Witness ==
    /\ enc.pc = "panic"
    /\ enc.err = "enc: unsupported op"
    /\ enc.writes = 0
    /\ dec.pc = "panic"
    /\ dec.err = "dec: unsupported step"
    /\ outfile = <<>>

\* C8: the bundle encrypt writes has one record per descriptor, in order,
\* with the descriptor's op (fixed pipeline: rolling_key, aesgcm_enc,
\* chacha20poly1305_enc).
C8_State ==
    /\ enc.pc = "walk" => Len(enc.out_steps) = enc.i - 1
    /\ enc.pc \in {"walk", "done"} =>
          \A j \in 1..Len(enc.out_steps) : enc.out_steps[j].op = steps[j].op
    /\ enc.pc = "done" =>
          /\ OpsOf(enc.out_steps) = OpsOf(steps)
          /\ steps = PIPELINE_JSON =>
                OpsOf(enc.out_steps) = <<OpRollingKey, OpAesGcm, OpChaCha>>

C8_Step ==
    enc'.writes # enc.writes
        => bundleFile'.kind = "json" /\ OpsOf(bundleFile'.steps) = OpsOf(steps)

\* C8 (bundle mirrors the pipeline): C8_State holds of every state and C8_Step of every step.
C8_BundleMirrorsPipeline == C8_State /\ [][C8_Step /\ C8_State']_vars

C8_Witness ==
    /\ enc.pc = "done"
    /\ steps = PIPELINE_JSON
    /\ bundleFile.kind = "json"
    /\ OpsOf(bundleFile.steps) = <<OpRollingKey, OpAesGcm, OpChaCha>>

\* C9: a record written by encrypt carries a nonce and associated data iff its
\* op is an AEAD step.
C9_MetadataIffAead ==
    \A j \in 1..Len(enc.out_steps) :
        LET r == enc.out_steps[j]
        IN  /\ IsSome(r.nonce_b64) <=> r.op \in AeadOps
            /\ IsSome(r.aad_b64) <=> r.op \in AeadOps

C9_Witness ==
    /\ enc.pc = "done"
    /\ \E j \in 1..Len(enc.out_steps) :
          enc.out_steps[j].op = OpRollingKey /\ enc.out_steps[j].nonce_b64 = None
    /\ \E j \in 1..Len(enc.out_steps) :
          enc.out_steps[j].op \in AeadOps /\ enc.out_steps[j].aad_b64 = Some(<<>>)

\* C10: in both walks the counter is 1 before the first step, is always 1 plus
\* the number of ratchet steps executed, and changes only by +1 on a ratchet
\* step.
C10_State ==
    /\ enc.i >= 1 => enc.counter = 1 + RatchetsBefore(steps, enc.i)
    /\ dec.i >= 1 => dec.counter = 1 + RatchetsBefore(dec.bundle.steps, dec.i)

C10_Step ==
    /\ (enc.pc = "idle" /\ enc'.pc = "walk") => enc'.counter = 1
    /\ (dec.pc = "idle" /\ dec'.pc = "walk") => dec'.counter = 1
    /\ (enc.pc # "idle" /\ enc'.counter # enc.counter)
          => /\ enc'.counter = enc.counter + 1
             /\ enc.pc = "walk" /\ steps[enc.i].op = OpRollingKey
    /\ (dec.pc # "idle" /\ dec'.counter # dec.counter)
          => /\ dec'.counter = dec.counter + 1
             /\ dec.pc = "walk" /\ dec.bundle.steps[dec.i].op = OpRollingKey

\* C10 (counter discipline): C10_State holds of every state and C10_Step of every step.
C10_CounterDiscipline == C10_State /\ [][C10_Step /\ C10_State']_vars

C10_Witness ==
    /\ enc.pc = "done" /\ enc.counter = 3
    /\ dec.pc = "done" /\ dec.counter = 3
\* The key a walk from initial key k0 over the steps q holds before step i.
RECURSIVE WalkKey(_, _, _)
WalkKey(k0, q, i) ==
    IF i <= 1 THEN k0
    ELSE LET prev == WalkKey(k0, q, i - 1)
             c == CounterInit + RatchetsBefore(q, i - 1)
         IN  IF q[i - 1].op = OpRollingKey
             THEN rolling_key(prev, c, to_be_bytes(c))
             ELSE prev

\* C11: an AEAD step (encrypt or its replay) leaves key and counter alone and
\* changes data; a ratchet step changes key and counter and leaves data alone;
\* so the key an AEAD step seals or opens with is the key of the most recent
\* ratchet step before it, or the initial key.
C11_EncStep ==
    (enc.pc = "walk" /\ enc'.i = enc.i + 1) =>
        IF steps[enc.i].op \in AeadOps
        THEN /\ enc'.key = enc.key
             /\ enc'.counter = enc.counter
             /\ enc'.data # enc.data
             /\ enc'.data.kind = "sealed"
             /\ enc'.data.pt = enc.data
             /\ enc'.data.key = WalkKey(InitKey(enc.seed), steps, enc.i)
        ELSE /\ enc'.data = enc.data
             /\ enc'.key # enc.key
             /\ enc'.counter # enc.counter

C11_DecStep ==
    /\ (dec.pc = "walk" /\ dec'.i = dec.i + 1) =>
          IF dec.bundle.steps[dec.i].op \in AeadOps
          THEN /\ dec'.key = dec.key
               /\ dec'.counter = dec.counter
               /\ dec'.data # dec.data
               /\ dec.data.key = WalkKey(InitKey(dec.seed), dec.bundle.steps, dec.i)
          ELSE /\ dec'.data = dec.data
               /\ dec'.key # dec.key
               /\ dec'.counter # dec.counter
    /\ (dec.pc = "walk" /\ dec'.i = dec.i) =>
          dec'.key = dec.key /\ dec'.counter = dec.counter /\ dec'.data = dec.data

\* C11 (frame of each step kind): every step of either walk is as above.
C11_StepFrames == [][C11_EncStep /\ C11_DecStep]_vars

C11_Witness ==
    /\ enc.pc = "done"
    /\ enc.data.kind = "sealed"
    /\ enc.data.key.kind = "sha3"
    /\ enc.data.pt.kind = "raw"
    /\ dec.pc = "done"
    /\ dec.key = enc.data.key
    /\ dec.data = enc.data.pt
    /\ Len(dec.calls) = 2
\* The initial key a ratcheted key descends from.
RECURSIVE RootKey(_)
RootKey(k) == IF k.kind = "sha3" THEN RootKey(k.cur) ELSE k

\* k is the 32-byte normal form of the seed bytes sb.
IsNormalFormOf(k, sb) ==
    /\ Len(k) = 32
    /\ Len(sb) = 32 => k = sb
    /\ Len(sb) < 32 =>
          /\ SubSeq(k, 1, Len(sb)) = sb
          /\ \A j \in (Len(sb) + 1)..32 : k[j] = 0
    /\ Len(sb) > 32 => k = SubSeq(sb, 1, 32)

\* C13: the initial key is 32 bytes: a 32-byte seed unchanged, a shorter one
\* zero-filled on the right, a longer one cut to its first 32 bytes; encrypt
\* and decrypt start from the same key when given the same seed.
C13_SeedNormalization ==
    /\ enc.i >= 1 =>
          /\ RootKey(enc.key).kind = "bytes"
          /\ IsNormalFormOf(RootKey(enc.key).v, parse_seed(enc.seed))
    /\ dec.i >= 1 =>
          /\ RootKey(dec.key).kind = "bytes"
          /\ IsNormalFormOf(RootKey(dec.key).v, parse_seed(dec.seed))
    /\ (enc.i >= 1 /\ dec.i >= 1 /\ enc.seed = dec.seed) =>
          RootKey(enc.key) = RootKey(dec.key)

C13_Witness ==
    /\ enc.i >= 1
    /\ dec.i >= 1
    /\ Len(parse_seed(enc.seed)) > 32
    /\ Len(parse_seed(dec.seed)) < 32
    /\ RootKey(enc.key).v = Seed32
\* The call the decrypt walk makes for a record with a known op.
CallOf(op) ==
    IF op = OpAesGcm THEN AesGcm ELSE IF op = OpChaCha THEN ChaCha ELSE OpRollingKey

\* C14: the decrypt walk takes the records first to last in stored order: its
\* j-th call is the inverse of record j; on the bundle of the configured
\* pipeline the AES-GCM inverse is applied to the bundle's final data, before
\* any ChaCha20-Poly1305 inverse, though encrypt applied ChaCha20-Poly1305 last.
C14_State ==
    dec.bundle.kind = "json" =>
        /\ Len(dec.calls) <= Len(dec.bundle.steps)
        /\ dec.i >= 1 => Len(dec.calls) \in {dec.i - 1, dec.i}
        /\ \A j \in 1..Len(dec.calls) : dec.calls[j].op = CallOf(dec.bundle.steps[j].op)
        /\ (steps = PIPELINE_JSON /\ EncBundleIs(dec.bundle)) =>
              /\ enc.data.alg = ChaCha /\ enc.data.pt.alg = AesGcm
              /\ \A j \in 1..Len(dec.calls) :
                    dec.calls[j].op = ChaCha => \E k \in 1..(j - 1) : dec.calls[k].op = AesGcm
              /\ dec.i = 2 => dec.data = enc.data

C14_Step ==
    (dec.pc = "walk" /\ dec' # dec /\ dec'.pc # "done") =>
        /\ dec'.i \in {dec.i, dec.i + 1}
        /\ Len(dec'.calls) > Len(dec.calls) =>
              dec'.calls[Len(dec'.calls)].op = CallOf(dec.bundle.steps[dec.i].op)

\* C14 (stored-order replay): C14_State holds of every state and C14_Step of every step.
C14_StoredOrderReplay == C14_State /\ [][C14_Step /\ C14_State']_vars

C14_Witness ==
    /\ steps = PIPELINE_JSON
    /\ EncBundleIs(dec.bundle)
    /\ dec.seed = enc.seed
    /\ Len(dec.calls) = 2
    /\ dec.calls[2].op = AesGcm
    /\ dec.data = enc.data
    /\ dec.data.alg = ChaCha
\* No two AEAD descriptors of q without a rolling_key descriptor between them.
OneAeadPerSegment(q) ==
    \A i, j \in 1..Len(q) :
        (i < j /\ q[i].op \in AeadOps /\ q[j].op \in AeadOps) =>
            \E k \in (i + 1)..(j - 1) : q[k].op = OpRollingKey

\* C15: on a pipeline of ratchet and AEAD descriptors with at most one AEAD
\* descriptor between ratchet boundaries, decrypt of the bundle encrypt wrote,
\* with the same seed, does not abort and returns the original plaintext.
C15_SegmentedRoundTrip ==
    ( /\ OneAeadPerSegment(steps)
      /\ \A i \in 1..Len(steps) : steps[i].op \in KnownOps
      /\ EncBundleIs(dec.bundle)
      /\ dec.seed = enc.seed ) =>
        /\ ~Aborted(dec)
        /\ dec.pc = "done" => outfile = <<infile>>
\* The (key, counter) pair a walk started from seed holds before position i of q.
PairBefore(seed, q, i) ==
    <<WalkKey(InitKey(seed), q, i), CounterInit + RatchetsBefore(q, i)>>

\* C16: the encrypt walk holds PairBefore(seed, steps, i) before descriptor i,
\* and a decrypt walk run with the same seed on the bundle encrypt wrote holds
\* the same pair before record i, for every position i it reaches; at equal
\* positions the two walks hold equal pairs.
C16_KeySequenceAgreement ==
    /\ enc.i >= 1 => <<enc.key, enc.counter>> = PairBefore(enc.seed, steps, enc.i)
    /\ (EncBundleIs(dec.bundle) /\ dec.seed = enc.seed /\ dec.i >= 1) =>
          /\ <<dec.key, dec.counter>> = PairBefore(enc.seed, steps, dec.i)
          /\ dec.i = enc.i => <<dec.key, dec.counter>> = <<enc.key, enc.counter>>

C16_Witness ==
    /\ EncBundleIs(dec.bundle)
    /\ dec.seed = enc.seed
    /\ dec.i = enc.i
    /\ dec.i = Len(steps) + 1
    /\ dec.key.kind = "sha3"
    /\ dec.key.cur.kind = "sha3"
    /\ dec.counter = CounterInit + 2
    /\ <<dec.key, dec.counter>> = <<enc.key, enc.counter>>
\* C17, encrypt side: an AEAD step appends a record whose nonce_b64 and
\* aad_b64 decode to exactly the nonce and associated data of the seal it made.
C17_EncStep ==
    (enc.pc = "walk" /\ enc'.i = enc.i + 1 /\ steps[enc.i].op \in AeadOps) =>
        LET r == enc'.out_steps[enc.i]
        IN  /\ Len(enc'.out_steps) = enc.i
            /\ enc'.data.kind = "sealed"
            /\ IsSome(r.nonce_b64) /\ B64Ok(Unwrap(r.nonce_b64))
            /\ B64Decode(Unwrap(r.nonce_b64)) = enc'.data.nonce
            /\ IsSome(r.aad_b64) /\ B64Ok(Unwrap(r.aad_b64))
            /\ B64Decode(Unwrap(r.aad_b64)) = enc'.data.aad

\* C17, decrypt side: the AEAD call made for record j received the decoded
\* nonce_b64 and aad_b64 of record j (empty associated data when the field is
\* absent), whatever the pipeline's descriptor says; on the bundle encrypt
\* wrote, the call for the AES-GCM record received what the AES-GCM seal used.
C17_State ==
    /\ \A j \in 1..Len(dec.calls) :
          dec.calls[j].op \in {AesGcm, ChaCha} =>
              LET r == dec.bundle.steps[j]
              IN  /\ IsSome(r.nonce_b64)
                  /\ dec.calls[j].nonce = B64Decode(Unwrap(r.nonce_b64))
                  /\ dec.calls[j].aad =
                        IF IsSome(r.aad_b64) THEN B64Decode(Unwrap(r.aad_b64)) ELSE <<>>
    /\ (steps = PIPELINE_JSON /\ EncBundleIs(dec.bundle) /\ Len(dec.calls) >= 2) =>
          /\ dec.calls[2].nonce = enc.data.pt.nonce
          /\ dec.calls[2].aad = enc.data.pt.aad

\* C17 (metadata recorded and replayed verbatim).
C17_MetadataVerbatim == C17_State /\ [][C17_EncStep /\ C17_State']_vars

C17_Witness ==
    /\ enc.pc = "done"
    /\ Len(dec.calls) >= 2
    /\ dec.calls[2].op = AesGcm
    /\ steps[2].aad = Some(StrAdap)
    /\ dec.calls[2].aad = <<>>
    /\ dec.calls[2].nonce = enc.data.pt.nonce
    /\ B64Decode(Unwrap(enc.out_steps[2].aad_b64)) = StrAdap
\* Some AEAD-tagged record of b has no nonce_b64.
LacksNonce(b) ==
    \E j \in 1..Len(b.steps) : b.steps[j].op \in AeadOps /\ ~IsSome(b.steps[j].nonce_b64)

\* C18: a bundle with an AEAD-tagged record lacking its nonce is rejected
\* before any cryptographic work: decrypt makes no ratchet derivation and no
\* AEAD call on it, still holds the seed key, and never completes.
C18_RejectedAtParse ==
    (dec.bundle.kind = "json" /\ LacksNonce(dec.bundle)) =>
        /\ dec.calls = <<>>
        /\ dec.key = InitKey(dec.seed)
        /\ dec.pc # "done"
\* b has no AEAD-tagged record: its steps are empty or all rolling_key.
OnlyRatchets(b) == \A j \in 1..Len(b.steps) : b.steps[j].op = OpRollingKey

\* The bundle file is the one the decrypt invocation was run on, and it is a
\* bundle with decodable data and no AEAD-tagged record.
RanOnUnsealed ==
    /\ dec.pc # "idle"
    /\ enc.pc = "idle" \/ dec.bundle = bundleFile
    /\ bundleFile.kind = "json"
    /\ bundleFile.data_b64.ok
    /\ OnlyRatchets(bundleFile)

\* The decrypt invocation has not failed, has made no AEAD call, holds the
\* bundle's data unchanged, and if it has finished it wrote exactly that data
\* after one ratchet derivation per record.
AcceptedUnchecked ==
    /\ ~Aborted(dec)
    /\ \A j \in 1..Len(dec.calls) : dec.calls[j].op \notin AeadCalls
    /\ dec.data = bundleFile.data_b64.dec
    /\ dec.pc = "done" =>
          /\ outfile = <<bundleFile.data_b64.dec>>
          /\ Len(dec.calls) = Len(bundleFile.steps)

\* C19, as stated: a bundle with no AEAD-tagged record is accepted by decrypt
\* for every seed, with no integrity check, and its data is written unchanged.
C19_AcceptedForEverySeed == RanOnUnsealed => AcceptedUnchecked

\* C19, amended: a bundle with no AEAD-tagged record is accepted by decrypt
\* for every seed that parse_seed accepts, with no integrity check, and its
\* data is written unchanged; with a "0x" seed that is not valid hex decrypt
\* panics before it reads the bundle.
C19_AcceptedForEveryParsedSeed ==
    RanOnUnsealed =>
        IF ParseSeedOk(dec.seed) THEN AcceptedUnchecked
        ELSE dec.pc = "panic" /\ dec.err = "bad hex seed" /\ dec.bundle = NoFile /\ outfile = <<>>

C19_Witness ==
    /\ RanOnUnsealed
    /\ dec.pc = "done"
    /\ Len(bundleFile.steps) = 1
    /\ Len(dec.seed) > KeyLen
    /\ dec.key.kind = "sha3"
    /\ outfile = <<Raw(<<255>>)>>
\* Number of AEAD descriptors of q before position i.
AeadsBefore(q, i) == Cardinality({j \in 1..Len(q) : j < i /\ q[j].op \in AeadOps})

\* C20, states: before descriptor i the encrypt walk holds data of length
\* |plaintext| + 16 x (AEAD steps executed), so the data of the bundle it
\* writes has length |plaintext| + 16 x (number of AEAD steps).
C20_State ==
    /\ enc.i >= 1 => DataLen(enc.data) = Len(infile.bytes) + 16 * AeadsBefore(steps, enc.i)
    /\ EncBundleIs(bundleFile) =>
          DataLen(bundleFile.data_b64.dec) = Len(infile.bytes) + 16 * AeadsBefore(steps, Len(steps) + 1)

\* C20, steps: an AEAD encrypt step lengthens data by 16, a successful AEAD
\* decrypt step shortens it by 16, and an AEAD decrypt step on data shorter
\* than 16 bytes fails.
C20_Step ==
    /\ (enc.pc = "walk" /\ enc'.i = enc.i + 1 /\ steps[enc.i].op \in AeadOps) =>
          DataLen(enc'.data) = DataLen(enc.data) + 16
    /\ (dec.pc = "walk" /\ dec'.i = dec.i + 1 /\ dec.bundle.steps[dec.i].op \in AeadOps) =>
          DataLen(dec'.data) = DataLen(dec.data) - 16
    /\ (dec.pc = "walk" /\ dec' # dec /\ dec.i <= Len(dec.bundle.steps)
          /\ dec.bundle.steps[dec.i].op \in AeadOps /\ DataLen(dec.data) < 16) =>
          dec'.pc = "panic" /\ dec'.data = dec.data

\* C20 (length accounting).
C20_LengthAccounting == C20_State /\ [][C20_Step /\ C20_State']_vars

C20_Witness ==
    /\ EncBundleIs([dec.bundle EXCEPT !.steps = enc.out_steps])
    /\ DataLen(dec.bundle.data_b64.dec) = Len(infile.bytes) + 32
    /\ Len(infile.bytes) = 1
    /\ dec.i >= 3
    /\ dec.calls[2].op \in AeadCalls
    /\ DataLen(dec.data) = DataLen(dec.bundle.data_b64.dec) - 16
====
